---- MODULE Spec2Model ----
(***************************************************************************)
(* Model of src/src/cut_with_edl.py: the conversion request cut_video, the *)
(* no-cut path convert_without_cuts with its repair workflow               *)
(* (repair_corrupted_file), the two cut strategies                         *)
(* (cut_video_with_filter_complex, cut_video_with_concat_demuxer), the     *)
(* deny-list file (is_blacklisted, add_to_blacklist) and the marker        *)
(* parser and segment inverter.                                            *)
(*                                                                         *)
(* One conversion request runs at a time (the program is single-threaded   *)
(* and blocking).  A request is cut into steps at each invocation of an    *)
(* external program (ffmpeg, ffprobe): one action is one invocation plus   *)
(* all the code that follows it up to the next invocation or the return.   *)
(* The external program is the environment: it exits zero, exits non-zero, *)
(* or cannot be launched (subprocess.run raises FileNotFoundError).        *)
(*                                                                         *)
(* Files: the deny-list file and the temporary files are read, written and *)
(* removed reliably.  Opening the log file succeeds unless logFaulty is    *)
(* set, which Spec never does (SpecLogFaulty does).                        *)
(*                                                                         *)
(* The functions without side effects (marker parser and inverter,         *)
(* build_filter_complex, parse_txt_metadata) are operators; besides their  *)
(* use inside a request, each is called on its own on a range of           *)
(* arguments (SpecMarker, SpecFilterGraph, SpecSidecar).                   *)
(***************************************************************************)
EXTENDS Integers, Sequences, FiniteSets, TLC

VARIABLES
    blacklist,          \* lines of BLACKLIST_FILE, oldest first (each a basename as written)
    nreq,               \* number of conversion requests started so far
    pc,                 \* position of the current request
    req,                \* arguments of the current request, and what the file system holds for them
    result,             \* how the current request ended: a return code, or an exception
    calls,              \* external invocations of the current request, in order
    keep_segments,      \* cut_video: the keep-segments computed from the marker file
    plan,               \* what a dry run printed: <<segment count>>, or <<>>
    seg_i,              \* cut_video_with_concat_demuxer: index of the next segment to extract
    temp_dir,           \* cut_video_with_concat_demuxer: does the temporary directory exist
    segment_files,      \* segment files present in the temporary directory (indices)
    concat_list,        \* the manifest in the temporary directory: <<>> or <<segment indices>>
    temp_repaired,      \* the repaired working copy on disk: [exists, size]
    repaired_temp_file, \* convert_without_cuts: did repair_corrupted_file return a path
    logFaulty,          \* may an open of the log file fail
    bl0,                \* history: the deny-list when the current request started
    wc_made,            \* history: the working copy was created on disk in this request
    dir_made,           \* history: the temporary directory was created in this request
    permFailed,         \* history: inputs whose request ended in permanent repair failure
    arg,                \* a function called on its own: its argument
    value               \* a function called on its own: what it returned

vars == <<blacklist, nreq, pc, req, result, calls, keep_segments, plan, seg_i,
          temp_dir, segment_files, concat_list, temp_repaired, repaired_temp_file,
          logFaulty, bl0, wc_made, dir_made, permFailed, arg, value>>

----------------------------------------------------------------------------
(* Bounds of the model *)

MaxRequests == 2

\* lines of a marker file given to the parser on its own
MaxLines == 3

\* keep-segments given to build_filter_complex on its own
MaxSegments == 3

\* lines of a plain-text sidecar
MaxTxtLines == 3

----------------------------------------------------------------------------
(* Characters, names and paths.  A basename is a sequence of characters;   *)
(* a path is a directory and a basename.                                   *)

Whitespace == {" ", "\n"}

InputFiles ==
    { [dir |-> "v", base |-> <<"a">>],
      [dir |-> "w", base |-> <<"a">>],
      [dir |-> "v", base |-> <<"b", " ">>] }

basename(path) == path.base

RECURSIVE lstrip(_)
lstrip(s) ==
    IF s # <<>> /\ Head(s) \in Whitespace THEN lstrip(Tail(s)) ELSE s

RECURSIVE rstrip(_)
rstrip(s) ==
    IF s # <<>> /\ s[Len(s)] \in Whitespace
    THEN rstrip(SubSeq(s, 1, Len(s) - 1))
    ELSE s

strip(s) == rstrip(lstrip(s))

----------------------------------------------------------------------------
(* The deny-list file: one line per appended basename.                     *)

is_blacklisted(bl, input_file) ==
    \E n \in 1..Len(bl) : strip(bl[n]) = basename(input_file)

\* faulty variant: the path is written instead of the basename
add_to_blacklist_path(bl, input_file) ==
    Append(bl, <<input_file.dir, "/">> \o basename(input_file))

\* faulty variant: the deny-list file is opened with "w"
add_to_blacklist_rewrite(bl, input_file) == << basename(input_file) >>

\* open(BLACKLIST_FILE, "a"): one line is appended
add_to_blacklist(bl, input_file) == Append(bl, basename(input_file))

----------------------------------------------------------------------------
(* Marker files.  A line is the sequence of its whitespace-separated       *)
(* fields (a blank line is <<>>); a field is a token.  float() accepts     *)
(* the tokens of TokenValue and raises ValueError on every other token.    *)

TokenValue ==
    ("0" :> 0) @@ ("1" :> 1) @@ ("10" :> 10) @@ ("20" :> 20) @@
    ("30" :> 30) @@ ("40" :> 40) @@ ("50" :> 50) @@ ("60" :> 60) @@
    ("70" :> 70) @@ ("80" :> 80) @@ ("90" :> 90) @@ ("100" :> 100) @@
    ("110" :> 110) @@ ("120" :> 120)

is_float(tok) == tok \in DOMAIN TokenValue

float(tok) == TokenValue[tok]

starts_with_hash(tok) == tok \in {"#", "#x"}

None == <<>>

Some(x) == <<x>>

\* faulty variant: comment lines are not skipped
edl_has_no_commercials_hash(lines) ==
    \A n \in 1..Len(lines) :
        LET parts == lines[n] IN
        ~ ( /\ parts # <<>>
            /\ Len(parts) >= 3
            /\ parts[3] = "0" )

edl_has_no_commercials(lines) ==
    \A n \in 1..Len(lines) :
        LET parts == lines[n] IN
        ~ ( /\ parts # <<>>
            /\ ~ starts_with_hash(parts[1])
            /\ Len(parts) >= 3
            /\ parts[3] = "0" )

RECURSIVE parse_edl_lines(_)
parse_edl_lines(lines) ==
    IF lines = <<>> THEN <<>>
    ELSE LET parts == Head(lines)
             rest  == parse_edl_lines(Tail(lines))
         IN  IF parts = <<>> \/ starts_with_hash(parts[1]) THEN rest
             ELSE IF Len(parts) < 3 THEN rest
             ELSE IF is_float(parts[1]) /\ is_float(parts[2])
                  THEN << [start  |-> float(parts[1]),
                           end    |-> float(parts[2]),
                           action |-> parts[3]] >> \o rest
                  ELSE rest

\* faulty variant: "start >= last_end" emits empty segments
RECURSIVE keep_from_ge(_, _)
keep_from_ge(cuts, last_end) ==
    IF cuts = <<>> THEN << [start |-> last_end, end |-> None] >>
    ELSE LET c == Head(cuts) IN
         IF c.action = "0"
         THEN (IF c.start >= last_end
               THEN << [start |-> last_end, end |-> Some(c.start)] >>
               ELSE <<>>) \o keep_from_ge(Tail(cuts), c.end)
         ELSE keep_from_ge(Tail(cuts), last_end)

\* faulty variant: last_end is not advanced past a remove-record
RECURSIVE keep_from_stuck(_, _)
keep_from_stuck(cuts, last_end) ==
    IF cuts = <<>> THEN << [start |-> last_end, end |-> None] >>
    ELSE LET c == Head(cuts) IN
         IF c.action = "0"
         THEN (IF c.start > last_end
               THEN << [start |-> last_end, end |-> Some(c.start)] >>
               ELSE <<>>) \o keep_from_stuck(Tail(cuts), last_end)
         ELSE keep_from_stuck(Tail(cuts), last_end)

\* the loop of keep_segments_from_cuts from a given last_end, and the final
\* append of (last_end, None)
RECURSIVE keep_from(_, _)
keep_from(cuts, last_end) ==
    IF cuts = <<>> THEN << [start |-> last_end, end |-> None] >>
    ELSE LET c == Head(cuts) IN
         IF c.action = "0"
         THEN (IF c.start > last_end
               THEN << [start |-> last_end, end |-> Some(c.start)] >>
               ELSE <<>>) \o keep_from(Tail(cuts), c.end)
         ELSE keep_from(Tail(cuts), last_end)

\* faulty variant: the final segment is appended only when a segment was emitted
keep_segments_tail_if_any(cuts) ==
    LET k == keep_from(cuts, 0) IN IF Len(k) = 1 THEN <<>> ELSE k

\* faulty variant: without a remove-record no segment is emitted
keep_segments_none_without_removes(cuts) ==
    IF \A n \in 1..Len(cuts) : cuts[n].action # "0" THEN <<>> ELSE keep_from(cuts, 0)

keep_segments_from_cuts(cuts) == keep_from(cuts, 0)

----------------------------------------------------------------------------
(* build_filter_complex.  A text is the sequence of its pieces: the        *)
(* literal parts of the f-strings and the separators (Lit), and the        *)
(* formatted values (Float for a time, Index for an index or count).       *)

Lit(str) == [lit |-> str]

Float(x) == [float |-> x]

Index(i) == [int |-> i]

\* "sep".join(texts)
RECURSIVE join(_, _)
join(sep, texts) ==
    IF texts = <<>> THEN <<>>
    ELSE IF Len(texts) = 1 THEN texts[1]
    ELSE texts[1] \o <<sep>> \o join(sep, Tail(texts))

\* faulty variant: "if e" instead of "if e is not None" drops an end of 0
end_str_truthy(e) ==
    IF e # None /\ e[1] # 0 THEN << Lit(":end="), Float(e[1]) >> ELSE <<>>

\* end_str = f":end={e}" if e is not None else ""
end_str(e) == IF e # None THEN << Lit(":end="), Float(e[1]) >> ELSE <<>>

\* f"[0:v]trim=start={s}{end_str},setpts=PTS-STARTPTS[v{i}]"
v_filter(i, seg) ==
    << Lit("[0:v]trim=start="), Float(seg.start) >> \o end_str(seg.end)
    \o << Lit(",setpts=PTS-STARTPTS[v"), Index(i), Lit("]") >>

\* f"[0:a]atrim=start={s}{end_str},asetpts=PTS-STARTPTS[a{i}]"
a_filter(i, seg) ==
    << Lit("[0:a]atrim=start="), Float(seg.start) >> \o end_str(seg.end)
    \o << Lit(",asetpts=PTS-STARTPTS[a"), Index(i), Lit("]") >>

\* "".join([f"[v{i}][a{i}]" for i in range(n)])
RECURSIVE concat_inputs_from(_, _)
concat_inputs_from(i, n) ==
    IF i >= n THEN <<>>
    ELSE << Lit("[v"), Index(i), Lit("][a"), Index(i), Lit("]") >>
         \o concat_inputs_from(i + 1, n)

\* enumerate(keep_segments) counts from 0
build_filter_complex(keep) ==
    LET n            == Len(keep)
        v_filters    == [k \in 1..n |-> v_filter(k - 1, keep[k])]
        a_filters    == [k \in 1..n |-> a_filter(k - 1, keep[k])]
        v_part       == IF v_filters # <<>>
                        THEN join(Lit("; "), v_filters) \o << Lit("; ") >> ELSE <<>>
        a_part       == IF a_filters # <<>>
                        THEN join(Lit("; "), a_filters) \o << Lit("; ") >> ELSE <<>>
    IN  v_part \o a_part \o concat_inputs_from(0, n)
        \o << Lit("concat=n="), Index(n), Lit(":v=1:a=1[outv][outa]") >>

----------------------------------------------------------------------------
(* parse_txt_metadata.  A line is a sequence of characters without its     *)
(* line break; a run of letters is one character (a word), so a line is    *)
(* made of words, " " and ":".  The file exists and is readable.           *)

\* str.lower() on the words of the model
LowerOf ==
    ("Description" :> "description") @@ ("Channel" :> "channel")

lower(s) == [k \in DOMAIN s |-> IF s[k] \in DOMAIN LowerOf THEN LowerOf[s[k]] ELSE s[k]]

\* ":" in line
has_colon(line) == \E k \in 1..Len(line) : line[k] = ":"

\* line.split(":", 1)
split_colon(line) ==
    LET k == CHOOSE k \in 1..Len(line) :
                /\ line[k] = ":"
                /\ \A j \in 1..(k - 1) : line[j] # ":"
    IN  [key_part |-> SubSeq(line, 1, k - 1), value_part |-> SubSeq(line, k + 1, Len(line))]

\* meta[key] = value
set_field(meta, key, val) == [k \in DOMAIN meta \cup {key} |-> IF k = key THEN val ELSE meta[k]]

\* the loop over the lines of the file: meta, description_lines, in_description
RECURSIVE parse_txt_lines(_, _, _, _)
parse_txt_lines(lines, meta, description_lines, in_description) ==
    IF lines = <<>>
    THEN [meta |-> meta, description_lines |-> description_lines]
    ELSE LET line == Head(lines)
             rest == Tail(lines)
         IN  IF in_description
             THEN parse_txt_lines(rest, meta, Append(description_lines, line), TRUE)
             ELSE IF ~ has_colon(line)
                  THEN parse_txt_lines(rest, meta, description_lines, FALSE)
             ELSE LET key == strip(lower(split_colon(line).key_part))
                      val == strip(split_colon(line).value_part)
                  IN  IF key = <<"description">>
                      THEN parse_txt_lines(rest, meta,
                                           IF val # <<>>
                                           THEN Append(description_lines, val)
                                           ELSE description_lines,
                                           TRUE)
                      ELSE IF key \in { <<"channel">>, <<"date">>, <<"recording">> }
                           THEN parse_txt_lines(rest, set_field(meta, key[1], val),
                                                description_lines, FALSE)
                      ELSE parse_txt_lines(rest, meta, description_lines, FALSE)

\* faulty variant: the description is left as joined
description_text_raw(description_lines) == join("\n", description_lines)

\* "\n".join(description_lines).strip()
description_text(description_lines) == strip(join("\n", description_lines))

parse_txt_metadata(lines) ==
    LET p == parse_txt_lines(lines, <<>>, <<>>, FALSE) IN
    IF p.description_lines # <<>>
    THEN set_field(p.meta, "description", description_text(p.description_lines))
    ELSE p.meta

----------------------------------------------------------------------------
(* Strategy selection (cut_video): sizes are in bytes, and                 *)
(* size / (1024 * 1024) > k is size > k * 1024 * 1024.                     *)

MB == 1024 * 1024

\* faulty variant: the thresholds are not strict
use_concat_ge(size, num_segments) ==
    \/ num_segments >= 5
    \/ size >= 500 * MB
    \/ (size >= 200 * MB /\ num_segments >= 3)

use_concat(size, num_segments) ==
    \/ num_segments > 5
    \/ size > 500 * MB
    \/ (size > 200 * MB /\ num_segments > 3)

----------------------------------------------------------------------------
(* The conversion requests the model issues.                               *)

EdlContents ==
    { <<>>,
      << <<"#", "x", "0">>, <<>> >>,
      << <<"10", "20", "1">> >>,
      << <<"10", "20", "0">> >>,
      << <<"10", "20", "0">>, <<"40", "50", "0">> >>,
      << <<"x", "20", "0">>, <<"10">> >> }

EdlFiles ==
    { [kind |-> "none",    lines |-> <<>>],
      [kind |-> "missing", lines |-> <<>>] }
    \cup { [kind |-> "file", lines |-> l] : l \in EdlContents }

FileSizes == { 10 * MB, 600 * MB }

Requests ==
    [ input_file   : InputFiles,
      input_exists : BOOLEAN,
      edl_file     : EdlFiles,
      size         : FileSizes,
      dry_run      : BOOLEAN,
      log_file     : BOOLEAN ]

\* the requests issued when opens of the log file may fail: all of them log
LoggedRequests ==
    [ input_file   : { [dir |-> "v", base |-> <<"a">>] },
      input_exists : {TRUE},
      edl_file     : EdlFiles,
      size         : FileSizes,
      dry_run      : BOOLEAN,
      log_file     : {TRUE} ]

----------------------------------------------------------------------------
(* Results, external invocations, log opens, temporary files.              *)

Ret(c) == [kind |-> "return", code |-> c]

Raise(e) == [kind |-> "raise", exc |-> e]

NoResult == [kind |-> "none"]

\* subprocess.run: the program ran and exited with rc, or could not be launched
ExitCodes == {0, 1}

EngineOutcomes ==
    { [launched |-> TRUE, rc |-> c] : c \in ExitCodes } \cup { [launched |-> FALSE] }

Call(kind, src, seg, o) == [kind |-> kind, src |-> src, seg |-> seg, out |-> o]

\* with open(log_file, "a", ...): "ok", or the exception open raises
LogOutcomes(r, faulty) ==
    IF r.log_file /\ faulty THEN {"ok", "FileNotFoundError", "OSError"} ELSE {"ok"}

\* the working copy written by the repair pass
MinRepairedSize == 1024

Absent == [exists |-> FALSE, size |-> 0]

RepairOutputs ==
    {Absent} \cup
    { [exists |-> TRUE, size |-> z] : z \in {MinRepairedSize, MinRepairedSize + 1} }

\* if os.path.exists(temp_repaired): os.remove(temp_repaired)
remove_if_exists(t) == IF t.exists THEN Absent ELSE t

\* faulty variant: the finally clause leaves the working copy
finally_keep(rtf, t) == t

\* convert_without_cuts, finally: remove the working copy repair returned
finally_cleanup(rtf, t) == IF rtf /\ t.exists THEN Absent ELSE t

\* repair_corrupted_file: is the repair pass's output worth probing
repair_pass_ok(rc, t) == rc = 0 /\ t.exists /\ t.size > MinRepairedSize

\* faulty variant: the repair is attempted after every first attempt
first_failed_always(rc) == TRUE

\* convert_without_cuts: "if rc != 0" after the first attempt (line 362)
first_failed(rc) == rc # 0

\* faulty variant: the retry's exit status is not looked at
still_failed_always(rc) == TRUE

\* convert_without_cuts: "if rc != 0" after the repair and the retry (line 385)
still_failed(rc) == rc # 0

\* faulty variant: a failed retry goes back to the repair
after_retry_again(rc) == IF rc # 0 THEN "repair_pass" ELSE "done"

\* convert_without_cuts after the retry: "return 6" or "return 0" (lines 385-390)
after_retry(rc) == "done"

\* repair_corrupted_file: "if verify_rc == 0" (line 104)
verify_ok(verify_rc) == verify_rc = 0

\* faulty variant: a failed extraction is only logged
extract_failed_never(rc) == FALSE

\* cut_video_with_concat_demuxer: "if rc != 0" after an extraction (lines 456, 461)
extract_failed(rc) == rc # 0

\* cut_video_with_concat_demuxer: "if rc != 0" after the concat run (line 506)
concat_failed(rc) == rc # 0

\* faulty variant: the filter-graph run's exit status is dropped
filter_failed_never(rc) == FALSE

\* cut_video_with_filter_complex: "if rc != 0" (line 592)
filter_failed(rc) == rc # 0

\* faulty variant: the temporary directory is left behind
rmtree_keep(dir) == dir

\* shutil.rmtree(temp_dir, ignore_errors=True): nothing of the directory is left
rmtree(dir) == [exists |-> FALSE, segments |-> {}, manifest |-> <<>>]

\* convert_without_cuts, except FileNotFoundError: return 7; others propagate
convert_except(e) == IF e = "FileNotFoundError" THEN Ret(7) ELSE Raise(e)

\* cut_video_with_filter_complex, except FileNotFoundError: return 7
filter_except(e) == IF e = "FileNotFoundError" THEN Ret(7) ELSE Raise(e)

\* cut_video_with_concat_demuxer has no except clause: everything propagates
concat_except(e) == Raise(e)

----------------------------------------------------------------------------
(* The command line of convert_without_cuts.  An argument is a sequence of *)
(* characters, as a basename is; a path given without a directory is its   *)
(* basename.                                                               *)

\* the input path as it was passed to cut_video
path_of(f) == IF f.dir = "" THEN f.base ELSE <<f.dir, "/">> \o f.base

\* tempfile.mktemp(suffix=".ts", prefix="repaired_")
RepairedPath == <<"tmp", "/", "repaired">>

OutputPath == <<"out", "/", "o">>

\* cmd as built for the first attempt (no subtitle, no metadata file)
encode_cmd(working_file) ==
    << <<"ffmpeg">>, <<"-nostdin">>, <<"-hide_banner">>, <<"-loglevel">>, <<"error">>,
       <<"-err_detect">>, <<"ignore_err">>, <<"-i">>, working_file,
       <<"-map">>, <<"0:v">>, <<"-map">>, <<"0:a">>,
       <<"-c:v">>, <<"libx264">>, <<"-crf">>, <<"21">>, <<"-preset">>, <<"faster">>,
       <<"-c:a">>, <<"aac">>, <<"-b:a">>, <<"192k">>, <<"-y">>, OutputPath >>

\* list.index(x): the first position of x
list_index(cmd, x) ==
    CHOOSE k \in 1..Len(cmd) : cmd[k] = x /\ \A j \in 1..(k - 1) : cmd[j] # x

\* cmd[cmd.index(input_file)] = repaired_temp_file
retry_cmd(input_file) ==
    LET cmd == encode_cmd(path_of(input_file))
    IN  [cmd EXCEPT ![list_index(cmd, path_of(input_file))] = RepairedPath]

\* the file the command tells ffmpeg to read: the argument after "-i"
input_of(cmd) == cmd[list_index(cmd, <<"-i">>) + 1]

\* what the retry reads
retry_source(input_file) ==
    IF input_of(retry_cmd(input_file)) = RepairedPath THEN "working" ELSE "input"

----------------------------------------------------------------------------
(* Init *)

Init ==
    /\ blacklist \in { <<>>, << <<"a">> >> }
    /\ nreq = 0
    /\ pc = "idle"
    /\ req = [input_file |-> [dir |-> "v", base |-> <<"a">>], input_exists |-> FALSE,
              edl_file |-> [kind |-> "none", lines |-> <<>>], size |-> 10 * MB,
              dry_run |-> FALSE, log_file |-> FALSE]
    /\ result = NoResult
    /\ calls = <<>>
    /\ keep_segments = <<>>
    /\ plan = <<>>
    /\ seg_i = 1
    /\ temp_dir = FALSE
    /\ segment_files = {}
    /\ concat_list = <<>>
    /\ temp_repaired = Absent
    /\ repaired_temp_file = FALSE
    /\ logFaulty = FALSE
    /\ bl0 = blacklist
    /\ wc_made = FALSE
    /\ dir_made = FALSE
    /\ permFailed = {}
    /\ arg = <<>>
    /\ value = <<>>

----------------------------------------------------------------------------
(* cut_video, from its call to its first external invocation or its return *)

\* tempfile.mkdtemp: a new, empty directory
NewTempDir == [exists |-> TRUE, segments |-> {}, manifest |-> <<>>]

Stop(res) ==
    [pc |-> "done", result |-> res, keep |-> <<>>, plan |-> <<>>,
     temp_dir |-> FALSE, dir_made |-> FALSE]

\* convert_without_cuts up to the first attempt; lo: the open of the log
\* file before "return 9"
convert_without_cuts_entry(r, bl, lo) ==
    IF ~ r.input_exists THEN Stop(Ret(3))
    ELSE IF is_blacklisted(bl, r.input_file)
         THEN (IF lo # "ok" THEN Stop(Raise(lo)) ELSE Stop(Ret(9)))
         ELSE [Stop(NoResult) EXCEPT !.pc = "first_attempt"]

\* the cut path of cut_video, from "Parse EDL" on; lo1: the open of the log
\* file for the method lines, lo2: the first open in cut_video_with_concat_demuxer
cut_path_entry(r, lo1, lo2) ==
    LET cuts == parse_edl_lines(r.edl_file.lines)
        keep == keep_segments_from_cuts(cuts)
    IN  IF keep = <<>> THEN Stop(Ret(5))
        ELSE IF r.dry_run
             THEN [Stop(Ret(0)) EXCEPT !.keep = keep, !.plan = <<Len(keep)>>]
        ELSE IF lo1 # "ok" THEN [Stop(Raise(lo1)) EXCEPT !.keep = keep]
        ELSE IF use_concat(r.size, Len(keep))
             THEN (IF lo2 # "ok"
                   THEN [Stop(concat_except(lo2)) EXCEPT
                            !.keep = keep, !.dir_made = TRUE,
                            !.temp_dir = rmtree(NewTempDir).exists]
                   ELSE [Stop(NoResult) EXCEPT
                            !.pc = "extract", !.keep = keep,
                            !.dir_made = TRUE, !.temp_dir = TRUE])
             ELSE [Stop(NoResult) EXCEPT !.pc = "filter", !.keep = keep]

\* faulty variant: the marker path is not checked; edl_has_no_commercials
\* answers True for a file it cannot open
cut_video_entry_unchecked(r, bl, lo1, lo2) ==
    IF ~ r.input_exists THEN Stop(Ret(3))
    ELSE IF r.edl_file.kind = "none" \/ edl_has_no_commercials(r.edl_file.lines)
         THEN (IF lo1 # "ok" THEN Stop(Raise(lo1))
               ELSE convert_without_cuts_entry(r, bl, lo2))
    ELSE cut_path_entry(r, lo1, lo2)

cut_video_entry(r, bl, lo1, lo2) ==
    IF ~ r.input_exists THEN Stop(Ret(3))
    ELSE IF r.edl_file.kind = "none"
         THEN (IF lo1 # "ok" THEN Stop(Raise(lo1))
               ELSE convert_without_cuts_entry(r, bl, lo2))
    ELSE IF r.edl_file.kind = "missing" THEN Stop(Ret(4))
    ELSE IF edl_has_no_commercials(r.edl_file.lines)
         THEN (IF lo1 # "ok" THEN Stop(Raise(lo1))
               ELSE convert_without_cuts_entry(r, bl, lo2))
    ELSE cut_path_entry(r, lo1, lo2)

\* one call of cut_video with arguments from requests
cut_video_of(requests) ==
    /\ pc \in {"idle", "done"}
    /\ nreq < MaxRequests
    /\ \E r \in requests :
       \E lo1 \in LogOutcomes(r, logFaulty) :
       \* the second open happens only when the first succeeded
       \E lo2 \in (IF lo1 = "ok" THEN LogOutcomes(r, logFaulty) ELSE {"ok"}) :
          LET e == cut_video_entry(r, blacklist, lo1, lo2) IN
          /\ req' = r
          /\ pc' = e.pc
          /\ result' = e.result
          /\ keep_segments' = e.keep
          /\ plan' = e.plan
          /\ temp_dir' = e.temp_dir
          /\ dir_made' = e.dir_made
    /\ nreq' = nreq + 1
    /\ bl0' = blacklist
    /\ calls' = <<>>
    /\ seg_i' = 1
    /\ segment_files' = {}
    /\ concat_list' = <<>>
    /\ repaired_temp_file' = FALSE
    /\ wc_made' = FALSE
    /\ UNCHANGED <<blacklist, temp_repaired, logFaulty, permFailed, arg, value>>

cut_video == cut_video_of(IF logFaulty THEN LoggedRequests ELSE Requests)

----------------------------------------------------------------------------
(* convert_without_cuts: first attempt, repair, probe, retry               *)

cutVars == <<keep_segments, plan, seg_i, temp_dir, segment_files, concat_list, dir_made>>

reqVars == <<nreq, req, bl0, logFaulty, arg, value>>

\* one step of the no-cut path: every variable it may change
NoCutStep(p, res, bl, cs, t, rtf, made, pf) ==
    /\ pc' = p
    /\ result' = res
    /\ blacklist' = bl
    /\ calls' = cs
    /\ temp_repaired' = t
    /\ repaired_temp_file' = rtf
    /\ wc_made' = made
    /\ permFailed' = pf
    /\ UNCHANGED <<cutVars, reqVars>>

\* an exception leaves convert_without_cuts: except FileNotFoundError, finally
ConvertRaises(e, cs, t, rtf, made) ==
    NoCutStep("done", convert_except(e), blacklist, cs,
              finally_cleanup(rtf, t), rtf, made, permFailed)

\* repair_corrupted_file returned None: rc is still the first attempt's,
\* so "if rc != 0" adds the input to the deny-list and returns 6
RepairFailed(cs, t, made) ==
    IF still_failed(cs[1].out.rc)
    THEN NoCutStep("done", Ret(6), add_to_blacklist(blacklist, req.input_file), cs,
                   finally_cleanup(FALSE, t), FALSE, made,
                   permFailed \cup {req.input_file})
    ELSE NoCutStep("done", Ret(0), blacklist, cs, finally_cleanup(FALSE, t), FALSE,
                   made, permFailed)

\* repair_corrupted_file, except Exception: remove the working copy, open the
\* log (lo), return None
RepairExcept(lo, cs, t, made) ==
    IF lo # "ok"
    THEN ConvertRaises(lo, cs, remove_if_exists(t), FALSE, made)
    ELSE RepairFailed(cs, remove_if_exists(t), made)

\* repair_corrupted_file, "Cleanup failed repair": remove the working copy,
\* open the log (lo1; a failure is caught by except Exception, which opens
\* it again, lo2), return None
RepairCleanup(lo1, lo2, cs, t, made) ==
    IF lo1 # "ok"
    THEN RepairExcept(lo2, cs, remove_if_exists(t), made)
    ELSE RepairFailed(cs, remove_if_exists(t), made)

\* the first ffmpeg run on the input (lines 347-367 and 76-80)
first_attempt ==
    /\ pc = "first_attempt"
    /\ \E lo1 \in LogOutcomes(req, logFaulty), o \in EngineOutcomes,
          lo2 \in LogOutcomes(req, logFaulty), lo3 \in LogOutcomes(req, logFaulty) :
          LET cs == Append(calls, Call("encode", "input", 0, o)) IN
          IF lo1 # "ok" THEN ConvertRaises(lo1, calls, temp_repaired, FALSE, wc_made)
          ELSE IF ~ o.launched
               THEN ConvertRaises("FileNotFoundError", cs, temp_repaired, FALSE, wc_made)
          ELSE IF ~ first_failed(o.rc)
               THEN NoCutStep("done", Ret(0), blacklist, cs,
                              finally_cleanup(FALSE, temp_repaired), FALSE,
                              wc_made, permFailed)
          ELSE IF lo2 # "ok" THEN ConvertRaises(lo2, cs, temp_repaired, FALSE, wc_made)
          ELSE IF lo3 # "ok" THEN ConvertRaises(lo3, cs, temp_repaired, FALSE, wc_made)
          ELSE NoCutStep("repair_pass", NoResult, blacklist, cs, temp_repaired,
                         FALSE, wc_made, permFailed)

\* repair_corrupted_file: the error-tolerant stream copy (lines 91-99, 110-126)
repair_pass ==
    /\ pc = "repair_pass"
    /\ \E lo1 \in LogOutcomes(req, logFaulty), o \in EngineOutcomes,
          t \in RepairOutputs,
          lo2 \in LogOutcomes(req, logFaulty), lo3 \in LogOutcomes(req, logFaulty) :
          LET cs == Append(calls, Call("repair", "input", 0,
                                       IF o.launched
                                       THEN [launched |-> TRUE, rc |-> o.rc, output |-> t]
                                       ELSE o))
          IN
          IF lo1 # "ok" THEN RepairExcept(lo3, calls, temp_repaired, wc_made)
          ELSE IF ~ o.launched THEN RepairExcept(lo3, cs, temp_repaired, wc_made)
          ELSE IF repair_pass_ok(o.rc, t)
               THEN NoCutStep("repair_verify", NoResult, blacklist, cs, t, FALSE,
                              TRUE, permFailed)
          ELSE RepairCleanup(lo2, lo3, cs, t, wc_made \/ t.exists)

\* repair_corrupted_file: the ffprobe run on the working copy (lines 100-126)
repair_verify ==
    /\ pc = "repair_verify"
    /\ \E o \in EngineOutcomes,
          lo1 \in LogOutcomes(req, logFaulty), lo2 \in LogOutcomes(req, logFaulty),
          lo3 \in LogOutcomes(req, logFaulty) :
          LET cs == Append(calls, Call("probe", "working", 0, o)) IN
          IF ~ o.launched THEN RepairExcept(lo3, cs, temp_repaired, wc_made)
          ELSE IF verify_ok(o.rc)
               THEN (IF lo1 # "ok"
                     THEN RepairExcept(lo3, cs, temp_repaired, wc_made)
                     ELSE NoCutStep("retry", NoResult, blacklist, cs, temp_repaired,
                                    TRUE, wc_made, permFailed))
          ELSE RepairCleanup(lo2, lo3, cs, temp_repaired, wc_made)

\* convert_without_cuts: the retry with the repaired file (lines 369-401)
retry ==
    /\ pc = "retry"
    /\ \E lo1 \in LogOutcomes(req, logFaulty), o \in EngineOutcomes :
          LET cs == Append(calls, Call("encode", retry_source(req.input_file), 0, o)) IN
          IF lo1 # "ok"
          THEN ConvertRaises(lo1, calls, temp_repaired, repaired_temp_file, wc_made)
          ELSE IF ~ o.launched
               THEN ConvertRaises("FileNotFoundError", cs, temp_repaired,
                                  repaired_temp_file, wc_made)
          ELSE IF still_failed(o.rc)
               THEN NoCutStep(after_retry(o.rc), Ret(6),
                              add_to_blacklist(blacklist, req.input_file), cs,
                              finally_cleanup(repaired_temp_file, temp_repaired),
                              repaired_temp_file, wc_made, permFailed)
          ELSE NoCutStep(after_retry(o.rc), Ret(0), blacklist, cs,
                         finally_cleanup(repaired_temp_file, temp_repaired),
                         repaired_temp_file, wc_made, permFailed)

----------------------------------------------------------------------------
(* cut_video_with_concat_demuxer and cut_video_with_filter_complex         *)

noCutVars == <<blacklist, temp_repaired, repaired_temp_file, wc_made, permFailed>>

\* one step of a cut strategy: every variable it may change
CutStep(p, res, cs, i, dir) ==
    /\ pc' = p
    /\ result' = res
    /\ calls' = cs
    /\ seg_i' = i
    /\ temp_dir' = dir.exists
    /\ segment_files' = dir.segments
    /\ concat_list' = dir.manifest
    /\ UNCHANGED <<keep_segments, plan, dir_made, noCutVars, reqVars>>

TempDir == [exists |-> temp_dir, segments |-> segment_files, manifest |-> concat_list]

\* cut_video_with_concat_demuxer returns or raises: finally rmtree
ConcatEnds(res, cs) == CutStep("done", res, cs, seg_i, rmtree(TempDir))

\* "Step 2: Create concat list": one line per segment file, in list order
write_concat_list(n) == [k \in 1..n |-> k]

\* Step 1, one pass of the loop: extract keep_segments[seg_i] (lines 433-462);
\* after the last pass, Step 2 writes the manifest (lines 464-468)
extract_segment ==
    /\ pc = "extract"
    /\ \E lo1 \in LogOutcomes(req, logFaulty), o \in EngineOutcomes :
          LET cs == Append(calls, Call("extract", "input", seg_i, o)) IN
          IF lo1 # "ok" THEN ConcatEnds(concat_except(lo1), calls)
          ELSE IF ~ o.launched THEN ConcatEnds(concat_except("FileNotFoundError"), cs)
          ELSE IF extract_failed(o.rc) THEN ConcatEnds(Ret(6), cs)
          ELSE IF seg_i < Len(keep_segments)
               THEN CutStep("extract", NoResult, cs, seg_i + 1,
                            [TempDir EXCEPT !.segments = @ \cup {seg_i}])
          ELSE CutStep("concat", NoResult, cs, seg_i,
                       [TempDir EXCEPT !.segments = @ \cup {seg_i},
                                       !.manifest = write_concat_list(seg_i)])

\* Step 3: concatenate and re-encode in one pass (lines 470-514)
concat_encode ==
    /\ pc = "concat"
    /\ \E lo1 \in LogOutcomes(req, logFaulty), o \in EngineOutcomes :
          LET cs == Append(calls, Call("concat", "manifest", 0, o)) IN
          IF lo1 # "ok" THEN ConcatEnds(concat_except(lo1), calls)
          ELSE IF ~ o.launched THEN ConcatEnds(concat_except("FileNotFoundError"), cs)
          ELSE IF concat_failed(o.rc) THEN ConcatEnds(Ret(6), cs)
          ELSE ConcatEnds(Ret(0), cs)

\* cut_video_with_filter_complex: the one ffmpeg run (lines 577-598)
filter_encode ==
    /\ pc = "filter"
    /\ \E lo1 \in LogOutcomes(req, logFaulty), o \in EngineOutcomes :
          LET cs == Append(calls, Call("filter", "input", 0, o)) IN
          IF lo1 # "ok" THEN CutStep("done", filter_except(lo1), calls, seg_i, TempDir)
          ELSE IF ~ o.launched
               THEN CutStep("done", filter_except("FileNotFoundError"), cs, seg_i, TempDir)
          ELSE IF filter_failed(o.rc) THEN CutStep("done", Ret(6), cs, seg_i, TempDir)
          ELSE CutStep("done", Ret(0), cs, seg_i, TempDir)

----------------------------------------------------------------------------
(* The specifications *)

Next ==
    \/ cut_video
    \/ first_attempt
    \/ repair_pass
    \/ repair_verify
    \/ retry
    \/ extract_segment
    \/ concat_encode
    \/ filter_encode

Spec == Init /\ [][Next]_vars

\* the same program with a log file whose opens may fail
InitLogFaulty ==
    /\ blacklist \in { <<>>, << <<"a">> >> }
    /\ nreq = 0
    /\ pc = "idle"
    /\ req = [input_file |-> [dir |-> "v", base |-> <<"a">>], input_exists |-> FALSE,
              edl_file |-> [kind |-> "none", lines |-> <<>>], size |-> 10 * MB,
              dry_run |-> FALSE, log_file |-> FALSE]
    /\ result = NoResult
    /\ calls = <<>>
    /\ keep_segments = <<>>
    /\ plan = <<>>
    /\ seg_i = 1
    /\ temp_dir = FALSE
    /\ segment_files = {}
    /\ concat_list = <<>>
    /\ temp_repaired = Absent
    /\ repaired_temp_file = FALSE
    /\ logFaulty = TRUE
    /\ bl0 = blacklist
    /\ wc_made = FALSE
    /\ dir_made = FALSE
    /\ permFailed = {}
    /\ arg = <<>>
    /\ value = <<>>

SpecLogFaulty == InitLogFaulty /\ [][Next]_vars

----------------------------------------------------------------------------
(* Requests around the thresholds of the strategy selection: an existing   *)
(* input of each size, a marker file with 1 to 6 remove-records (2 to 7    *)
(* keep-segments), no dry run.                                             *)

ThresholdLines ==
    << <<"10", "20", "0">>, <<"30", "40", "0">>, <<"50", "60", "0">>,
       <<"70", "80", "0">>, <<"90", "100", "0">>, <<"110", "120", "0">> >>

ThresholdSizes ==
    { 10 * MB, 200 * MB, 200 * MB + 1, 250 * MB, 500 * MB, 500 * MB + 1, 600 * MB }

ThresholdRequests ==
    [ input_file   : { [dir |-> "v", base |-> <<"a">>] },
      input_exists : {TRUE},
      edl_file     : { [kind |-> "file", lines |-> SubSeq(ThresholdLines, 1, k)] :
                          k \in 1..Len(ThresholdLines) },
      size         : ThresholdSizes,
      dry_run      : {FALSE},
      log_file     : {FALSE} ]

cut_video_at_thresholds == cut_video_of(ThresholdRequests)

NextSelector ==
    \/ cut_video_at_thresholds
    \/ extract_segment
    \/ concat_encode
    \/ filter_encode

SpecSelector == Init /\ [][NextSelector]_vars

----------------------------------------------------------------------------
(* Requests on the no-cut path, for an input given by a path and for one   *)
(* given by a bare name that is also a word of the ffmpeg command line.    *)

RetryRequests ==
    [ input_file   : { [dir |-> "v", base |-> <<"a">>], [dir |-> "", base |-> <<"error">>] },
      input_exists : {TRUE},
      edl_file     : { [kind |-> "none", lines |-> <<>>],
                       [kind |-> "file", lines |-> <<>>] },
      size         : FileSizes,
      dry_run      : {FALSE},
      log_file     : {FALSE} ]

cut_video_no_cuts == cut_video_of(RetryRequests)

NextRetry ==
    \/ cut_video_no_cuts
    \/ first_attempt
    \/ repair_pass
    \/ repair_verify
    \/ retry

SpecRetry == Init /\ [][NextRetry]_vars

----------------------------------------------------------------------------
(* The functions without side effects, each called on its own: pc goes     *)
(* from "call" to "returned", arg is the argument, value the result.       *)

requestVars ==
    <<blacklist, nreq, req, result, calls, keep_segments, plan, seg_i, temp_dir,
      segment_files, concat_list, temp_repaired, repaired_temp_file, logFaulty,
      bl0, wc_made, dir_made, permFailed>>

\* no conversion request is running; the function is about to be called on
\* one of args
Standalone(args) ==
    /\ pc = "call"
    /\ arg \in args
    /\ value = <<>>
    /\ blacklist = <<>>
    /\ nreq = 0
    /\ req = [input_file |-> [dir |-> "v", base |-> <<"a">>], input_exists |-> FALSE,
              edl_file |-> [kind |-> "none", lines |-> <<>>], size |-> 10 * MB,
              dry_run |-> FALSE, log_file |-> FALSE]
    /\ result = NoResult
    /\ calls = <<>>
    /\ keep_segments = <<>>
    /\ plan = <<>>
    /\ seg_i = 1
    /\ temp_dir = FALSE
    /\ segment_files = {}
    /\ concat_list = <<>>
    /\ temp_repaired = Absent
    /\ repaired_temp_file = FALSE
    /\ logFaulty = FALSE
    /\ bl0 = <<>>
    /\ wc_made = FALSE
    /\ dir_made = FALSE
    /\ permFailed = {}

SeqsUpTo(S, n) == UNION { [1..k -> S] : k \in 0..n }

\* Marker files: up to MaxLines lines.  The records are in any order, may
\* overlap and may end before they start; some lines carry another action
\* code, some are comments, blank or malformed.
MarkerTimes == {"0", "10", "20", "40", "50"}

MarkerLines ==
    { <<s, e, "0">> : s \in MarkerTimes, e \in MarkerTimes }
    \cup { <<"20", "40", "1">>, <<"0", "50", "1">> }
    \cup { <<>>, <<"#", "x", "0">>, <<"x", "20", "0">>, <<"10">> }

MarkerFiles == SeqsUpTo(MarkerLines, MaxLines)

InitMarker == Standalone(MarkerFiles)

\* cut_video, "Parse EDL": cuts = parse_edl_lines(lines);
\* keep_segments = keep_segments_from_cuts(cuts)
parse_and_invert ==
    /\ pc = "call"
    /\ LET cuts == parse_edl_lines(arg) IN
       value' = [cuts |-> cuts, keep_segments |-> keep_segments_from_cuts(cuts)]
    /\ pc' = "returned"
    /\ UNCHANGED <<arg, requestVars>>

NextMarker == parse_and_invert

SpecMarker == InitMarker /\ [][NextMarker]_vars

\* Lists of up to MaxSegments keep-segments, of any shape: an end may be
\* unbounded, 0, or before the start
SegmentTimes == {0, 10, 20}

KeepSegments ==
    [ start : SegmentTimes, end : {None} \cup { Some(t) : t \in SegmentTimes } ]

KeepLists == SeqsUpTo(KeepSegments, MaxSegments)

InitFilterGraph == Standalone(KeepLists)

\* cut_video_with_filter_complex: filter_complex = build_filter_complex(keep_segments)
build_filter ==
    /\ pc = "call"
    /\ value' = build_filter_complex(arg)
    /\ pc' = "returned"
    /\ UNCHANGED <<arg, requestVars>>

NextFilterGraph == build_filter

SpecFilterGraph == InitFilterGraph /\ [][NextFilterGraph]_vars

\* Plain-text sidecars of up to MaxTxtLines lines: description keys with
\* and without a value, key lines, blank lines, lines with leading or
\* trailing blanks
TxtLines ==
    { <<"Description", ":">>,
      <<"description", ":", " ", "x", " ">>,
      <<>>,
      <<" ", "x">>,
      <<"x", " ">>,
      <<"Channel", ":", " ", "y">>,
      <<"date", ":", "y">>,
      <<"recording", " ", ":", "y", ":", "z">> }

TxtFiles == SeqsUpTo(TxtLines, MaxTxtLines)

InitSidecar == Standalone(TxtFiles)

read_txt_sidecar ==
    /\ pc = "call"
    /\ value' = parse_txt_metadata(arg)
    /\ pc' = "returned"
    /\ UNCHANGED <<arg, requestVars>>

NextSidecar == read_txt_sidecar

SpecSidecar == InitSidecar /\ [][NextSidecar]_vars

----------------------------------------------------------------------------
(* Vocabulary of the claims *)

Done == pc = "done"

Returned(c) == result = Ret(c)

\* the external invocation ran and exited non-zero
NonZero(c) == c.out.launched /\ c.out.rc # 0

\* the external invocation ran and exited zero
Zero(c) == c.out.launched /\ c.out.rc = 0

\* the invocations that process the video: no-cut encode, filter-graph run,
\* segment extraction, concatenate+encode
StrategyKinds == {"encode", "filter", "extract", "concat"}

\* the first attempt (on the original input) exited non-zero
FirstAttemptFailed ==
    \E n \in 1..Len(calls) :
        /\ calls[n].kind \in StrategyKinds
        /\ calls[n].src # "working"
        /\ NonZero(calls[n])

RepairAttempted == \E n \in 1..Len(calls) : calls[n].kind = "repair"

\* the repair pass ran and its output was verified by the probe
RepairVerified ==
    /\ \E n \in 1..Len(calls) :
          /\ calls[n].kind = "repair"
          /\ Zero(calls[n])
          /\ calls[n].out.output.exists
          /\ calls[n].out.output.size > MinRepairedSize
    /\ \E n \in 1..Len(calls) : calls[n].kind = "probe" /\ Zero(calls[n])

\* the repair failed: pass non-zero, output missing or trivially small, or
\* probe non-zero
RepairRejected ==
    \/ \E n \in 1..Len(calls) :
          /\ calls[n].kind = "repair"
          /\ calls[n].out.launched
          /\ \/ calls[n].out.rc # 0
             \/ ~ calls[n].out.output.exists
             \/ calls[n].out.output.size <= MinRepairedSize
    \/ \E n \in 1..Len(calls) : calls[n].kind = "probe" /\ NonZero(calls[n])

Retried == \E n \in 1..Len(calls) : calls[n].kind = "encode" /\ calls[n].src = "working"

RetrySucceeded ==
    \E n \in 1..Len(calls) :
        calls[n].kind = "encode" /\ calls[n].src = "working" /\ Zero(calls[n])

\* the input's basename is a line of the deny-list the request started with
DenyListed == \E n \in 1..Len(bl0) : bl0[n] = basename(req.input_file)

\* a request whose input exists and whose marker is 'none' or an existing file
Processable ==
    /\ pc # "idle"
    /\ req.input_exists
    /\ req.edl_file.kind # "missing"

----------------------------------------------------------------------------
(* C1: every conversion request (marker absent, marker without remove-     *)
(* records, marker with remove-records) for an input whose basename is on  *)
(* the deny-list returns 9 and never invokes the external engine.          *)
(* The code checks the deny-list only in convert_without_cuts.             *)

C1_DenyListedReturns9 ==
    (Processable /\ DenyListed) => (Done /\ Returned(9) /\ calls = <<>>)

(* C2: a non-zero engine exit on any processing path passes through the    *)
(* repair before a failure code is returned: a repair pass is attempted,   *)
(* a verified repair is followed by one retry against the working copy,    *)
(* and otherwise the input is appended to the deny-list.                   *)
(* The cut strategies return 6 without any repair.                         *)

C2_FailureGoesThroughRepair ==
    (Done /\ FirstAttemptFailed) =>
        /\ RepairAttempted
        /\ RepairVerified => Retried
        /\ ~ RepairVerified => blacklist = Append(bl0, basename(req.input_file))

(* C3: first attempt non-zero, repair verified, retry zero: the request    *)
(* returns 0 and the deny-list is as it was.                               *)

C3_RepairedRetryReturns0 ==
    (Done /\ FirstAttemptFailed /\ RepairVerified /\ RetrySucceeded) =>
        (Returned(0) /\ blacklist = bl0)

C3_Witness ==
    Done /\ FirstAttemptFailed /\ RepairVerified /\ RetrySucceeded /\ Returned(0)

(* C4: first attempt non-zero and repair failed (pass non-zero, working    *)
(* copy trivially small, or probe non-zero): the request returns 6 and has *)
(* appended the input's basename, not its path, to the deny-list once.     *)

C4_FailedRepairReturns6 ==
    (Done /\ FirstAttemptFailed /\ RepairRejected) =>
        /\ Returned(6)
        /\ blacklist = Append(bl0, req.input_file.base)

C4_Witness ==
    /\ Done /\ FirstAttemptFailed /\ RepairRejected /\ Returned(6)
    /\ \E n \in 1..Len(calls) :
          /\ calls[n].kind = "repair" /\ Zero(calls[n])
          /\ calls[n].out.output.exists
          /\ calls[n].out.output.size = MinRepairedSize

(* C5: once a request for an input has ended in permanent failure, every   *)
(* later request for that input, whatever its marker, returns 9 without    *)
(* invoking the external engine.                                           *)
(* A later request with remove-records runs a cut strategy.                *)

C5_FailedInputShortCircuits ==
    [][ ( /\ nreq' = nreq + 1
          /\ req'.input_file \in permFailed
          /\ req'.input_exists
          /\ req'.edl_file.kind # "missing" )
        => (pc' = "done" /\ result' = Ret(9) /\ calls' = <<>>) ]_vars

(* C6: after a conversion request has returned or raised, the repaired     *)
(* working copy does not exist.                                            *)

C6_WorkingCopyRemoved == Done => ~ temp_repaired.exists

C6_Witness == Done /\ wc_made /\ repaired_temp_file /\ Retried /\ ~ temp_repaired.exists

(* C7: when the segment-copy strategy has returned or raised, its          *)
(* temporary directory, the segment files and the manifest are gone.       *)

C7_TempDirRemoved ==
    Done => (~ temp_dir /\ segment_files = {} /\ concat_list = <<>>)

C7_Witness ==
    /\ Done /\ dir_made /\ ~ temp_dir
    /\ \E n \in 1..Len(calls) : calls[n].kind = "concat"

(* C8: with dry_run set, no path of cut_video invokes the external engine. *)
(* The no-cut path ignores dry_run.                                        *)

C8_DryRunNeverInvokes ==
    (pc # "idle" /\ req.dry_run) => \A n \in 1..Len(calls) : ~ calls[n].out.launched

(* C9: a request returns 0 only if it was a dry run or its last external   *)
(* invocation was an encode that exited zero; and in a request that        *)
(* returns 0 every non-zero exit status is that of a first attempt         *)
(* followed by the repair pass.                                            *)

C9_ZeroOnlyAfterZeroEncode ==
    (Done /\ Returned(0)) =>
        /\ \/ (req.dry_run /\ plan # <<>> /\ calls = <<>>)
           \/ /\ calls # <<>>
              /\ calls[Len(calls)].kind \in {"encode", "filter", "concat"}
              /\ Zero(calls[Len(calls)])
        /\ \A n \in 1..Len(calls) :
              NonZero(calls[n]) =>
                 /\ calls[n].kind = "encode"
                 /\ calls[n].src = "input"
                 /\ n < Len(calls)
                 /\ calls[n + 1].kind = "repair"

C9_Witness ==
    /\ Done /\ Returned(0)
    /\ \E n \in 1..Len(calls) : NonZero(calls[n])

(* C10: if the external engine cannot be launched, the request returns 7   *)
(* on the no-cut path, the filter-graph strategy and the segment-copy      *)
(* strategy (extractions and concat).                                      *)
(* The segment-copy strategy has no handler: the exception escapes.        *)

C10_UnlaunchableReturns7 ==
    ( /\ Done
      /\ calls # <<>>
      /\ calls[Len(calls)].kind \in StrategyKinds
      /\ ~ calls[Len(calls)].out.launched )
    => Returned(7)

(* C11: with a log destination configured, a failing open of the log file   *)
(* never changes the result: a request ends with an exception, or with 7,  *)
(* only when the external program it last invoked could not be launched.   *)
(* The opens of the log file are unguarded: their exception leaves         *)
(* cut_video, or is turned into 7 inside convert_without_cuts.             *)

C11_LogFailureNeverChangesResult ==
    (Done /\ req.log_file /\ (result.kind = "raise" \/ Returned(7))) =>
        /\ calls # <<>>
        /\ ~ calls[Len(calls)].out.launched

(* C12: for all marker inputs (records in any order, overlapping, or with  *)
(* end < start) keep_segments_from_cuts returns a non-empty list whose     *)
(* segment starts are non-decreasing and whose last segment is unbounded.  *)
(* The starts are the successive values of last_end, which an out-of-order *)
(* record or a record with end < start moves backwards.                    *)

ReturnedKeep == value.keep_segments

StartsNonDecreasing(keep) ==
    \A i \in 1..Len(keep), j \in 1..Len(keep) : i < j => keep[i].start <= keep[j].start

C12_KeepSegmentsOrdered ==
    pc = "returned" =>
        /\ ReturnedKeep # <<>>
        /\ StartsNonDecreasing(ReturnedKeep)
        /\ ReturnedKeep[Len(ReturnedKeep)].end = None

\* the records with the remove action, in file order
Removes(cuts) == SelectSeq(cuts, LAMBDA c : c.action = "0")

\* no remove-record ends before the one before it, nor before 0
EndsNonDecreasing(r) ==
    \A i \in 1..Len(r) : r[i].end >= (IF i = 1 THEN 0 ELSE r[i - 1].end)

(* C12 as amended: the list is non-empty and its last segment unbounded    *)
(* for all inputs; the starts are non-decreasing whenever no               *)
(* remove-record ends before the remove-record preceding it (or before 0). *)

C12_KeepSegmentsOrderedIfEndsAre ==
    pc = "returned" =>
        /\ ReturnedKeep # <<>>
        /\ ReturnedKeep[Len(ReturnedKeep)].end = None
        /\ EndsNonDecreasing(Removes(value.cuts)) => StartsNonDecreasing(ReturnedKeep)

\* two overlapping remove-records, the second starting before the first
C12_Witness ==
    /\ pc = "returned"
    /\ Len(Removes(value.cuts)) = 2
    /\ Removes(value.cuts)[2].start < Removes(value.cuts)[1].start
    /\ EndsNonDecreasing(Removes(value.cuts))
    /\ Len(ReturnedKeep) = 2

(* C13: for remove-records sorted by start and pairwise non-overlapping    *)
(* (0 <= start <= end), parsing then inverting yields exactly the          *)
(* complement of the removed ranges: (0, s1) when s1 > 0, (e_i, s_{i+1})   *)
(* when s_{i+1} > e_i, and a final (e_n, unbounded); records with another  *)
(* action code do not change the result.                                   *)

SortedDisjoint(r) ==
    \A i \in 1..Len(r) :
        /\ 0 <= r[i].start
        /\ r[i].start <= r[i].end
        /\ i > 1 => r[i - 1].end <= r[i].start

\* the gap in front of each remove-record
Gaps(r) ==
    [k \in 1..Len(r) |->
        [start |-> IF k = 1 THEN 0 ELSE r[k - 1].end, end |-> Some(r[k].start)]]

Complement(r) ==
    SelectSeq(Gaps(r), LAMBDA g : g.end[1] > g.start)
    \o << [start |-> IF r = <<>> THEN 0 ELSE r[Len(r)].end, end |-> None] >>

C13_KeepIsComplement ==
    (pc = "returned" /\ SortedDisjoint(Removes(value.cuts))) =>
        /\ ReturnedKeep = Complement(Removes(value.cuts))
        /\ Removes(value.cuts) = <<>> => ReturnedKeep = << [start |-> 0, end |-> None] >>
        /\ Removes(value.cuts) = << [start |-> 10, end |-> 20, action |-> "0"],
                                    [start |-> 40, end |-> 50, action |-> "0"] >>
           => ReturnedKeep = << [start |-> 0,  end |-> Some(10)],
                                 [start |-> 20, end |-> Some(40)],
                                 [start |-> 50, end |-> None] >>

\* removes (10,20) and (40,50) with a record of another action between them
C13_Witness ==
    /\ pc = "returned"
    /\ arg = << <<"10", "20", "0">>, <<"20", "40", "1">>, <<"40", "50", "0">> >>
    /\ Len(ReturnedKeep) = 3

(* C14: a request whose marker file exists but holds only comment lines    *)
(* and blank lines (or nothing) behaves as the same request with the       *)
(* 'none' marker: the has-no-cuts check is true, cut_video takes the same  *)
(* way into the no-cut path, and only the no-cut path's invocations run.   *)

CommentOnly(lines) ==
    \A n \in 1..Len(lines) : lines[n] = <<>> \/ starts_with_hash(lines[n][1])

NoMarker == [kind |-> "none", lines |-> <<>>]

C14_CommentOnlyMarkerIsNoMarker ==
    (pc # "idle" /\ req.edl_file.kind = "file" /\ CommentOnly(req.edl_file.lines)) =>
        /\ edl_has_no_commercials(req.edl_file.lines)
        /\ cut_video_entry(req, bl0, "ok", "ok")
              = cut_video_entry([req EXCEPT !.edl_file = NoMarker], bl0, "ok", "ok")
        /\ keep_segments = <<>> /\ plan = <<>> /\ ~ dir_made
        /\ \A n \in 1..Len(calls) : calls[n].kind \in {"encode", "repair", "probe"}
        /\ (req.input_exists /\ is_blacklisted(bl0, req.input_file))
              => (Done /\ Returned(9) /\ calls = <<>>)

\* a marker of one comment line and one blank line: first attempt, repair,
\* failed retry, deny-list entry
C14_Witness ==
    /\ Done
    /\ req.edl_file.kind = "file"
    /\ req.edl_file.lines # <<>>
    /\ CommentOnly(req.edl_file.lines)
    /\ Retried
    /\ Returned(6)
    /\ blacklist # bl0

(* C15: segment-copy is chosen exactly when segment_count > 5, or          *)
(* size > 500MB, or (size > 200MB and segment_count > 3), otherwise        *)
(* filter-graph; the thresholds are strict; exactly one of the two         *)
(* strategies runs in a request.                                           *)

SegmentCopyChosen == dir_made

Chose(n, size) == Len(keep_segments) = n /\ req.size = size

C15_StrategySelection ==
    (pc # "idle" /\ req.input_exists /\ req.edl_file.kind = "file" /\ ~ req.dry_run
       /\ ~ edl_has_no_commercials(req.edl_file.lines)) =>
        /\ SegmentCopyChosen <=>
              \/ Len(keep_segments) > 5
              \/ req.size > 500 * MB
              \/ (req.size > 200 * MB /\ Len(keep_segments) > 3)
        /\ Chose(5, 200 * MB) => ~ SegmentCopyChosen
        /\ Chose(3, 500 * MB) => ~ SegmentCopyChosen
        /\ Chose(2, 10 * MB)  => ~ SegmentCopyChosen
        /\ Chose(6, 10 * MB)  => SegmentCopyChosen
        /\ Chose(2, 600 * MB) => SegmentCopyChosen
        /\ Chose(4, 250 * MB) => SegmentCopyChosen
        /\ SegmentCopyChosen =>
              /\ pc \in {"extract", "concat", "done"}
              /\ \A n \in 1..Len(calls) : calls[n].kind \in {"extract", "concat"}
        /\ ~ SegmentCopyChosen =>
              /\ pc \in {"filter", "done"}
              /\ Len(calls) <= 1
              /\ \A n \in 1..Len(calls) : calls[n].kind = "filter"
        /\ Done => calls # <<>>

\* 4 segments of a 250MB input: segment-copy has run to its concat step
C15_Witness ==
    /\ Done /\ Chose(4, 250 * MB) /\ SegmentCopyChosen
    /\ calls[Len(calls)].kind = "concat"
    /\ Returned(0)

(* C16: for every list of N keep-segments the filter-graph text has         *)
(* exactly N video trim stages and N audio trim stages, stage i labelled   *)
(* v_i / a_i (all distinct), and one concatenation stage that consumes     *)
(* the labelled streams in segment order and declares n=N; a segment with  *)
(* unbounded end gives trim stages with a start and no end parameter.      *)

\* the stages of a filter-graph text: its parts between the "; " separators
RECURSIVE Stages(_)
Stages(text) ==
    IF \A k \in 1..Len(text) : text[k] # [lit |-> "; "] THEN << text >>
    ELSE LET k == CHOOSE k \in 1..Len(text) :
                     /\ text[k] = [lit |-> "; "]
                     /\ \A j \in 1..(k - 1) : text[j] # [lit |-> "; "]
         IN  << SubSeq(text, 1, k - 1) >> \o Stages(SubSeq(text, k + 1, Len(text)))

Count(text, piece) == Cardinality({ k \in 1..Len(text) : text[k] = piece })

\* stage st trims from start to end (or without an end) and names its output
IsTrimStage(st, head, start, end, tail, i) ==
    /\ Len(st) = (IF end = <<>> THEN 5 ELSE 7)
    /\ st[1] = [lit |-> head]
    /\ st[2] = [float |-> start]
    /\ end # <<>> => (st[3] = [lit |-> ":end="] /\ st[4] = [float |-> end[1]])
    /\ Count(st, [lit |-> ":end="]) = (IF end = <<>> THEN 0 ELSE 1)
    /\ SubSeq(st, Len(st) - 2, Len(st)) = << [lit |-> tail], [int |-> i], [lit |-> "]"] >>

C16_FilterGraphStages ==
    pc = "returned" =>
        LET N  == Len(arg)
            st == Stages(value)
        IN  /\ Len(st) = 2 * N + 1
            /\ Count(value, [lit |-> "[0:v]trim=start="]) = N
            /\ Count(value, [lit |-> "[0:a]atrim=start="]) = N
            /\ Count(value, [lit |-> "concat=n="]) = 1
            /\ \A i \in 1..N :
                  /\ IsTrimStage(st[i], "[0:v]trim=start=", arg[i].start, arg[i].end,
                                 ",setpts=PTS-STARTPTS[v", i - 1)
                  /\ IsTrimStage(st[N + i], "[0:a]atrim=start=", arg[i].start, arg[i].end,
                                 ",asetpts=PTS-STARTPTS[a", i - 1)
            /\ Len(st[2 * N + 1]) = 5 * N + 3
            /\ \A i \in 1..N :
                  SubSeq(st[2 * N + 1], 5 * i - 4, 5 * i)
                    = << [lit |-> "[v"], [int |-> i - 1], [lit |-> "][a"],
                         [int |-> i - 1], [lit |-> "]"] >>
            /\ SubSeq(st[2 * N + 1], 5 * N + 1, 5 * N + 3)
                  = << [lit |-> "concat=n="], [int |-> N],
                       [lit |-> ":v=1:a=1[outv][outa]"] >>

\* three segments: one ending at 0, one bounded, the last unbounded
C16_Witness ==
    /\ pc = "returned"
    /\ Len(arg) = 3
    /\ arg[1].end = <<0>> /\ arg[2].end = <<20>> /\ arg[3].end = <<>>
    /\ Len(Stages(value)) = 7

(* C17: cut_video returns 3 whenever the input does not exist (whatever     *)
(* the marker, the deny-list and dry_run), and otherwise 4 whenever a      *)
(* marker path other than 'none' is given and does not exist; in both      *)
(* cases no external invocation, no repair, no deny-list change and no     *)
(* temporary file or directory.                                            *)

FailsFast(c) ==
    /\ Done
    /\ Returned(c)
    /\ calls = <<>>
    /\ blacklist = bl0
    /\ ~ wc_made /\ ~ temp_repaired.exists
    /\ ~ dir_made /\ ~ temp_dir /\ segment_files = {} /\ concat_list = <<>>

C17_MissingFilesFailFast ==
    pc # "idle" =>
        /\ ~ req.input_exists => FailsFast(3)
        /\ (req.input_exists /\ req.edl_file.kind = "missing") => FailsFast(4)

\* a dry run for a deny-listed input that exists, with a missing marker
C17_Witness ==
    /\ pc # "idle"
    /\ req.input_exists
    /\ req.edl_file.kind = "missing"
    /\ req.dry_run
    /\ DenyListed
    /\ Returned(4)

(* C18: once a description key line has been read the reader captures to   *)
(* the end of the file: every later line, blank lines and key-like lines   *)
(* included, is appended verbatim (joined by line breaks) and sets no      *)
(* other field; the description is trimmed of trailing whitespace only.    *)
(* The code trims with str.strip(), which also removes leading blank       *)
(* lines and the indentation of the first captured line.                   *)

IsDescriptionKey(line) ==
    /\ has_colon(line)
    /\ strip(lower(split_colon(line).key_part)) = <<"description">>

HasDescriptionKey(lines) == \E d \in 1..Len(lines) : IsDescriptionKey(lines[d])

\* the first description key line
FirstDescription(lines) ==
    CHOOSE d \in 1..Len(lines) :
        /\ IsDescriptionKey(lines[d])
        /\ \A j \in 1..(d - 1) : ~ IsDescriptionKey(lines[j])

\* what is captured: the key line's value when it has one, then every later line
Captured(lines) ==
    LET d   == FirstDescription(lines)
        val == strip(split_colon(lines[d]).value_part)
    IN  (IF val # <<>> THEN << val >> ELSE <<>>) \o SubSeq(lines, d + 1, Len(lines))

C18_DescriptionCapturedVerbatim ==
    (pc = "returned" /\ HasDescriptionKey(arg) /\ Captured(arg) # <<>>) =>
        /\ "description" \in DOMAIN value
        /\ value["description"] = rstrip(join("\n", Captured(arg)))
        /\ LET before == parse_txt_metadata(SubSeq(arg, 1, FirstDescription(arg) - 1))
           IN  /\ DOMAIN value = DOMAIN before \cup {"description"}
               /\ \A k \in DOMAIN before : value[k] = before[k]

(* C18 as amended: the same capture, with the description trimmed of       *)
(* leading and trailing whitespace (line breaks included).                 *)

C18_DescriptionCapturedAndStripped ==
    (pc = "returned" /\ HasDescriptionKey(arg) /\ Captured(arg) # <<>>) =>
        /\ "description" \in DOMAIN value
        /\ value["description"] = strip(join("\n", Captured(arg)))
        /\ LET before == parse_txt_metadata(SubSeq(arg, 1, FirstDescription(arg) - 1))
           IN  /\ DOMAIN value = DOMAIN before \cup {"description"}
               /\ \A k \in DOMAIN before : value[k] = before[k]

\* a key line with a value, then a blank line and a channel line: both are
\* captured and no channel field is set
C18_Witness ==
    /\ pc = "returned"
    /\ arg = << <<"description", ":", " ", "x", " ">>, <<>>, <<"Channel", ":", " ", "y">> >>
    /\ value["description"] = <<"x", "\n", "\n", "Channel", ":", " ", "y">>
    /\ DOMAIN value = {"description"}

(* C19: cut_video runs a cut strategy only when the parsed marker list      *)
(* holds at least one remove-record; when parse_edl_lines yields none      *)
(* (also when the only remove-coded lines are malformed) the inverter and  *)
(* both strategies are bypassed and the no-cut path is taken.              *)
(* edl_has_no_commercials looks at the action field without parsing the    *)
(* times, so a malformed remove-coded line sends the request to a cut      *)
(* strategy with the single segment (0, unbounded).                        *)

C19_NoRemoveRecordsNoCutStrategy ==
    ( /\ pc # "idle"
      /\ req.input_exists
      /\ req.edl_file.kind = "file"
      /\ Removes(parse_edl_lines(req.edl_file.lines)) = <<>> ) =>
        /\ keep_segments = <<>>
        /\ plan = <<>>
        /\ ~ dir_made
        /\ pc \notin {"filter", "extract", "concat"}
        /\ \A n \in 1..Len(calls) : calls[n].kind \in {"encode", "repair", "probe"}

(* C20: within one request the repair pass is invoked at most once and    *)
(* the processing strategy at most twice (first attempt and one retry);    *)
(* the retry is terminal: after it no repair pass, no integrity probe and  *)
(* no third attempt.                                                       *)

CallsOf(kinds) == { n \in 1..Len(calls) : calls[n].kind \in kinds }

C20_OneRepairOneRetry ==
    /\ Cardinality(CallsOf({"repair"})) <= 1
    /\ Cardinality(CallsOf({"probe"})) <= 1
    /\ Cardinality(CallsOf({"encode"})) <= 2
    /\ Cardinality(CallsOf({"filter"})) <= 1
    /\ Cardinality(CallsOf({"concat"})) <= 1
    /\ \A n \in 1..Len(calls) :
          (calls[n].kind = "encode" /\ calls[n].src = "working") =>
              /\ n = Len(calls)
              /\ Done
              /\ RepairAttempted

\* first attempt, repair pass, probe, and a retry that exits non-zero
C20_Witness ==
    /\ Done
    /\ Len(calls) = 4
    /\ calls[4].kind = "encode" /\ calls[4].src = "working" /\ NonZero(calls[4])
    /\ Returned(6)

(* C21: the strategy is retried against a working copy only when the       *)
(* repair pass exited zero, the working copy exists and is larger than     *)
(* 1024 bytes, and the probe of the working copy exited zero; the probe    *)
(* runs only after the first two hold; the retry reads the working copy,   *)
(* never the original input.                                               *)
(* The retry command is made by replacing the first argument equal to the  *)
(* input path, which for an input named like an earlier argument           *)
(* ("error") is not the argument after "-i".                               *)

RepairOutputGood(c) ==
    /\ c.kind = "repair"
    /\ Zero(c)
    /\ c.out.output.exists
    /\ c.out.output.size > 1024

\* the probe follows a good repair pass; a second encode follows a zero probe
ProbeAndRetryGuarded ==
    \A n \in 1..Len(calls) :
        /\ calls[n].kind = "probe" => (n > 1 /\ RepairOutputGood(calls[n - 1]))
        /\ (calls[n].kind = "encode" /\ n > 1) =>
              /\ n = 4
              /\ RepairOutputGood(calls[2])
              /\ calls[3].kind = "probe" /\ Zero(calls[3])

C21_RetryOnlyOnVerifiedCopy ==
    /\ ProbeAndRetryGuarded
    /\ \A n \in 1..Len(calls) :
          (calls[n].kind = "encode" /\ n > 1) => calls[n].src = "working"

(* C22: a deny-list entry is created only on permanent repair failure      *)
(* (repair pass failed, working copy trivially small, or probe failed); a  *)
(* request whose repair succeeded but whose retry exited non-zero reports  *)
(* failure without adding the input to the deny-list.                      *)
(* "If still failed, add to blacklist" (line 384) also covers the retry.   *)

RetryFailed == \E n \in 2..Len(calls) : calls[n].kind = "encode" /\ NonZero(calls[n])

C22_EntryOnlyOnRepairFailure ==
    /\ blacklist # bl0 => (RepairAttempted /\ ~ RepairVerified)
    /\ (Done /\ RepairVerified /\ RetryFailed) => (result.kind = "return" /\ blacklist = bl0)

(* C22 as amended: a deny-list entry is created only by a request that     *)
(* returns 6 after the repair workflow: its first attempt exited non-zero  *)
(* and either the repair delivered no working copy (with a writable log:   *)
(* pass failed or could not be run, working copy trivially small, probe    *)
(* failed) or it delivered one and the retry exited non-zero; the entry    *)
(* is the basename.                                                        *)

C22_EntryOnlyOnRepairOrRetryFailure ==
    blacklist # bl0 =>
        /\ Done
        /\ Returned(6)
        /\ blacklist = Append(bl0, basename(req.input_file))
        /\ FirstAttemptFailed
        /\ ~ repaired_temp_file \/ RetryFailed
        /\ (~ repaired_temp_file /\ ~ logFaulty) => ~ RepairVerified

\* the repair was verified, the retry exited non-zero, the input is listed
C22_Witness ==
    /\ Done
    /\ RepairVerified
    /\ RetryFailed
    /\ blacklist = Append(bl0, basename(req.input_file))

(* C23: in the segment-copy strategy the extractions run one at a time in  *)
(* keep-segment order; the first extraction that exits non-zero aborts     *)
(* the strategy with 6: no later extraction, no concatenate+encode; the    *)
(* concatenate+encode runs exactly once, only after every extraction       *)
(* exited zero, against a manifest listing the segment files in            *)
(* keep-segment order.                                                     *)

C23_SegmentCopySequencing ==
    SegmentCopyChosen =>
        LET N == Len(keep_segments) IN
        /\ Len(calls) <= N + 1
        /\ \A n \in 1..Len(calls) :
              /\ n <= N => (calls[n].kind = "extract" /\ calls[n].seg = n)
              /\ n = N + 1 => calls[n].kind = "concat"
              /\ n > 1 => Zero(calls[n - 1])
              /\ (calls[n].kind = "extract" /\ NonZero(calls[n])) =>
                    (n = Len(calls) /\ Done /\ Returned(6))
        /\ pc = "extract" => (seg_i = Len(calls) + 1 /\ segment_files = 1..Len(calls))
        /\ pc = "concat" =>
              /\ Len(calls) = N
              /\ segment_files = 1..N
              /\ concat_list = [k \in 1..N |-> k]
        /\ (Done /\ Returned(0)) => (Len(calls) = N + 1 /\ Zero(calls[N + 1]))

\* the third of five extractions exits non-zero
C23_Witness ==
    /\ SegmentCopyChosen
    /\ Done
    /\ Len(keep_segments) = 5
    /\ Len(calls) = 3
    /\ NonZero(calls[3])
    /\ Returned(6)

(* C24: for every sequence of cut records accepted by the parser the       *)
(* keep-segment list is non-overlapping and strictly increasing in start:  *)
(* each bounded segment has 0 <= start < end, and each segment's end is    *)
(* <= the next segment's start.                                            *)
(* The inverter neither sorts nor validates: see C12.                      *)

BoundedSegmentsProper(keep) ==
    \A i \in 1..Len(keep) :
        keep[i].end # None => (0 <= keep[i].start /\ keep[i].start < keep[i].end[1])

NonOverlappingIncreasing(keep) ==
    \A i \in 1..(Len(keep) - 1) :
        /\ keep[i].end # None
        /\ keep[i].end[1] <= keep[i + 1].start
        /\ keep[i].start < keep[i + 1].start

C24_KeepSegmentsDisjoint ==
    pc = "returned" =>
        /\ BoundedSegmentsProper(ReturnedKeep)
        /\ NonOverlappingIncreasing(ReturnedKeep)

\* every remove-record has start <= end and none ends before the one before it
EndsInOrder(r) ==
    /\ EndsNonDecreasing(r)
    /\ \A i \in 1..Len(r) : r[i].start <= r[i].end

(* C24 as amended: every bounded segment has start < end for all accepted  *)
(* inputs; the list is non-overlapping, strictly increasing in start and   *)
(* has starts >= 0 whenever every remove-record has start <= end and none  *)
(* ends before the remove-record preceding it (nor before 0).              *)

C24_KeepSegmentsDisjointIfEndsInOrder ==
    pc = "returned" =>
        /\ \A i \in 1..Len(ReturnedKeep) :
              ReturnedKeep[i].end # None => ReturnedKeep[i].start < ReturnedKeep[i].end[1]
        /\ EndsInOrder(Removes(value.cuts)) =>
              /\ BoundedSegmentsProper(ReturnedKeep)
              /\ NonOverlappingIncreasing(ReturnedKeep)

\* three remove-records with ends in order, the second inside the gap
\* before the third: four keep-segments
C24_Witness ==
    /\ pc = "returned"
    /\ Len(Removes(value.cuts)) = 3
    /\ EndsInOrder(Removes(value.cuts))
    /\ Len(ReturnedKeep) = 4

(* C25: the deny-list only grows: no step of a request removes or          *)
(* rewrites an existing entry, and a request that ends in 0 (success on    *)
(* the first attempt included), 3, 4 or 9 leaves the deny-list as it was.  *)

IsPrefix(s, t) == Len(s) <= Len(t) /\ SubSeq(t, 1, Len(s)) = s

C25_DenyListOnlyGrows ==
    [][ /\ IsPrefix(blacklist, blacklist')
        /\ IsPrefix(bl0', blacklist')
        /\ (pc' = "done" /\ result' \in {Ret(0), Ret(3), Ret(4), Ret(9)})
              => blacklist' = bl0' ]_vars

\* the second request succeeds on its first attempt after the first request
\* added an entry
C25_Witness ==
    /\ Done
    /\ nreq = 2
    /\ Len(bl0) >= 1
    /\ Len(calls) = 1
    /\ Zero(calls[1])
    /\ Returned(0)
    /\ blacklist = bl0
    /\ permFailed # {}

(* C26: cut_video never returns 5: the inverter always emits a final       *)
(* unbounded segment, so the "no keep segments" branch is not taken for    *)
(* any marker file; a marker file that is not recognised as free of        *)
(* remove-records, degenerate or invalid data included, is processed as a  *)
(* cut with the segments that were computed.                               *)

\* the marker file exists and edl_has_no_commercials answers False for it
ReachesInverter ==
    /\ pc # "idle"
    /\ req.input_exists
    /\ req.edl_file.kind = "file"
    /\ ~ edl_has_no_commercials(req.edl_file.lines)

C26_NeverReturnsFive ==
    /\ ~ Returned(5)
    /\ ReachesInverter =>
          /\ keep_segments = keep_segments_from_cuts(parse_edl_lines(req.edl_file.lines))
          /\ keep_segments # <<>>
          /\ keep_segments[Len(keep_segments)].end = None
          /\ \A n \in 1..Len(calls) : calls[n].kind \in {"filter", "extract", "concat"}
          /\ (Done /\ calls = <<>>) =>
                (req.dry_run /\ Returned(0) /\ plan = << Len(keep_segments) >>)

\* a marker file whose only remove-coded line is malformed: no record is
\* parsed, and the filter-graph strategy ran on the single segment
C26_Witness ==
    /\ Done
    /\ Returned(0)
    /\ req.edl_file.lines = << <<"x", "20", "0">>, <<"10">> >>
    /\ parse_edl_lines(req.edl_file.lines) = <<>>
    /\ keep_segments = << [start |-> 0, end |-> None] >>
    /\ Len(calls) = 1
    /\ calls[1].kind = "filter"
    /\ Zero(calls[1])

====
